---- MODULE Spec2Model ----
(***************************************************************************)
(* Model of src/app.py: the GitHub repository analyser.                    *)
(*                                                                         *)
(* The state machine follows main(): rate-limit check, URL parse, the      *)
(* repository fetch through handle_github_request, the commit-activity     *)
(* aggregator get_commit_activity and the contributor aggregator           *)
(* get_contributor_stats.  The GitHub API and the clock are the            *)
(* environment: every API call draws its outcome with \E.                  *)
(*                                                                         *)
(* Library behaviour the model relies on:                                  *)
(*  - st.stop() raises streamlit's StopException, which derives from       *)
(*    BaseException, so no "except Exception" clause catches it;           *)
(*  - RateLimitExceededException and BadCredentialsException derive from   *)
(*    GithubException (an Exception); BadAttributeException derives from   *)
(*    Exception.                                                           *)
(* Times are whole seconds since the epoch, UTC.                           *)
(***************************************************************************)
EXTENDS Integers, Sequences, FiniteSets, TLC

(* ------------------------------ bounds -------------------------------- *)
\* number of listing entries that may differ from the common one
MaxOdd == 1
\* largest "remaining" value the quota query reports
MaxRemaining == 2
\* longest contributor listing
MaxContrib == 3
\* largest contribution count of a contributor
MaxCount == 2

(* ------------------------- program constants -------------------------- *)
max_retries == 3
retry_delay == 2
reset_buffer == 5
max_single_wait == 60
commit_limit == 5000
top_n == 10
default_days == 30
finalize_sleep == 1

SecondsPerDay == 24 * 60 * 60

\* the instant the analysis runs at: midday of some day
NowChoices == { 20000 * SecondsPerDay + 12 * 60 * 60 }

Min(a, b) == IF a < b THEN a ELSE b

(* --------------------------- check_rate_limit ------------------------- *)
\* A datetime: naive (no tzinfo) or aware, t seconds since the epoch when
\* read as UTC.  present = FALSE is None.
NoTime == [present |-> FALSE, naive |-> FALSE, t |-> 0]

DateTimes(now) ==
    { [present |-> TRUE, naive |-> n, t |-> now + d] :
        n \in BOOLEAN, d \in {-3600, -1, 0, 1, 3600} } \cup { NoTime }

\* what g.get_rate_limit() answers: ok = FALSE is any exception
RateQueries(now) ==
    { [ok |-> TRUE, remaining |-> r, reset |-> x] :
        r \in 0..MaxRemaining, x \in DateTimes(now) }
    \cup { [ok |-> FALSE, remaining |-> 0, reset |-> NoTime] }

\* mutant: the naive reset time is left naive
NormTzKeep(r) == r

\* lines 122-123: a naive reset time is read as UTC
NormTz(r) == IF r.naive THEN [r EXCEPT !.naive = FALSE] ELSE r

\* lines 125: aware - aware; a naive operand raises TypeError
SubRaises(a) == a.naive

\* lines 110-133.  [result, msg]: the boolean returned and the warning shown
check_rate_limit(q, now) ==
    IF ~q.ok
    THEN [result |-> TRUE, msg |-> "rl_check_failed"]
    ELSE IF q.remaining = 0 /\ q.reset.present
    THEN LET reset_time == NormTz(q.reset)
         IN IF SubRaises(reset_time)
            THEN [result |-> TRUE, msg |-> "rl_check_failed"]
            ELSE IF reset_time.t - now > 0
                 THEN [result |-> FALSE, msg |-> "rl_wait"]
                 ELSE [result |-> TRUE, msg |-> "none"]
    ELSE [result |-> TRUE, msg |-> "none"]

(* ------------------------ handle_github_request ----------------------- *)
NoHeader == [present |-> FALSE, t |-> 0]

\* the x-ratelimit-reset header of a RateLimitExceededException (PyGithub
\* builds the exception from the response, so e.headers is a dict and the
\* header, when present, is a number of seconds)
ResetHeaders(now) ==
    { [present |-> TRUE, t |-> now + d] :
        d \in {-5, -4, 55, 56} } \cup { NoHeader }

\* mutant: the last attempt is not recognised
IsLastAttemptOff(attempt) == attempt = max_retries

\* lines 144, 160: attempt == max_retries - 1
IsLastAttempt(attempt) == attempt = max_retries - 1

\* mutant: the sleep until the reset is not capped
ResetSleepUncapped(hdr, now) ==
    IF hdr.present
    THEN LET wait_time == hdr.t - now + reset_buffer
         IN IF wait_time > 0 THEN << wait_time >> ELSE << >>
    ELSE << >>

\* lines 147-151: the sleep until the advertised reset, if any
ResetSleep(hdr, now) ==
    IF hdr.present
    THEN LET wait_time == hdr.t - now + reset_buffer
         IN IF wait_time > 0
            THEN << Min(wait_time, max_single_wait) >>
            ELSE << >>
    ELSE << >>

\* mutant: backoff computed from the 0-based attempt
BackoffZeroBased(attempt) == retry_delay * attempt

\* lines 152, 162: retry_delay * (attempt + 1)
Backoff(attempt) == retry_delay * (attempt + 1)

\* Each handler answers [verdict, sleeps, msg]:
\*   "stop"  st.stop() halts the script;  "raise" the exception propagates;
\*   "retry" the loop goes on after the sleeps.
\* lines 143-152
OnRateLimitExceeded(attempt, hdr, now) ==
    IF IsLastAttempt(attempt)
    THEN [verdict |-> "stop", sleeps |-> << >>, msg |-> "err_rate_limit"]
    ELSE [verdict |-> "retry",
          sleeps |-> ResetSleep(hdr, now) \o << Backoff(attempt) >>,
          msg |-> "none"]

\* mutant: invalid credentials are retried like a transient error
OnBadCredentialsRetry(attempt) ==
    IF IsLastAttempt(attempt)
    THEN [verdict |-> "stop", sleeps |-> << >>, msg |-> "err_bad_token"]
    ELSE [verdict |-> "retry", sleeps |-> << Backoff(attempt) >>, msg |-> "none"]

\* lines 153-155
OnBadCredentials(attempt) ==
    [verdict |-> "stop", sleeps |-> << >>, msg |-> "err_bad_token"]

\* lines 156-158
OnBadAttribute(attempt) ==
    [verdict |-> "stop", sleeps |-> << >>, msg |-> "err_bad_data"]

\* mutant: a transient error on the last attempt stops the script
OnOtherFatal(attempt) ==
    IF IsLastAttempt(attempt)
    THEN [verdict |-> "stop", sleeps |-> << >>, msg |-> "err_rate_limit"]
    ELSE [verdict |-> "retry", sleeps |-> << Backoff(attempt) >>, msg |-> "none"]

\* lines 159-162
OnOther(attempt) ==
    IF IsLastAttempt(attempt)
    THEN [verdict |-> "raise", sleeps |-> << >>, msg |-> "none"]
    ELSE [verdict |-> "retry", sleeps |-> << Backoff(attempt) >>, msg |-> "none"]

(* ------------------------- get_commit_activity ------------------------ *)
\* days since the epoch -> <<year, month, day>> of the proleptic Gregorian
\* calendar (what strftime('%Y-%m-%d') prints for a UTC datetime)
Civil(dn) ==
    LET z == dn + 719468
        era == z \div 146097
        doe == z - era * 146097
        yoe == (doe - doe \div 1460 + doe \div 36524 - doe \div 146096) \div 365
        doy == doe - (365 * yoe + yoe \div 4 - yoe \div 100)
        mp == (5 * doy + 2) \div 153
        d == doy - (153 * mp + 2) \div 5 + 1
        m == IF mp < 10 THEN mp + 3 ELSE mp - 9
        y == yoe + era * 400 + (IF m <= 2 THEN 1 ELSE 0)
    IN << y, m, d >>

\* lines 64, 87: strftime('%Y-%m-%d').  The string 'YYYY-MM-DD' is kept as
\* the number YYYYMMDD: the fields are zero-padded, so the order of the
\* strings is the order of the numbers.
DateKey(ts) ==
    LET c == Civil(ts \div SecondsPerDay)
    IN c[1] * 10000 + c[2] * 100 + c[3]

\* mutant: range(days) instead of range(days + 1)
SeedShort(start_ts, ndays) ==
    [k \in { DateKey(start_ts + i * SecondsPerDay) : i \in 0..(ndays - 1) } |-> 0]

\* lines 62-65: every day of the window at count 0
Seed(start_ts, ndays) ==
    [k \in { DateKey(start_ts + i * SecondsPerDay) : i \in 0..ndays } |-> 0]

SetMin(S) == CHOOSE x \in S : \A y \in S : x <= y

RECURSIVE SortedSeq(_)
\* sorted(...) of a set of keys, ascending
SortedSeq(S) ==
    IF S = {} THEN << >>
    ELSE LET m == SetMin(S) IN << m >> \o SortedSeq(S \ {m})

\* lines 70, 103: the seeded days, all at 0
ZeroSeries(bucket) ==
    LET ks == SortedSeq(DOMAIN bucket)
    IN [i \in 1..Len(ks) |-> [date |-> ks[i], commits |-> 0]]

\* line 107: the seeded days with their counts
CountSeries(bucket) ==
    LET ks == SortedSeq(DOMAIN bucket)
    IN [i \in 1..Len(ks) |-> [date |-> ks[i], commits |-> bucket[ks[i]]]]

\* mutant: the accumulated counts are returned on a rate-limit error
RateLimitSeriesPartial(bucket) == CountSeries(bucket)

\* line 103: what the RateLimitExceededException handler returns
RateLimitSeries(bucket) == ZeroSeries(bucket)

\* A listing entry as the loop body sees it:
\*   "commit"  commit.commit.author.date is a datetime (date, seconds);
\*   "nodate"  commit.commit, its author or the author's date is None;
\*   "raises"  reading those fields raises an Exception.
CommonEntry(end_ts) == [kind |-> "commit", date |-> end_ts]

OddEntries(start_ts, end_ts) ==
    ({ [kind |-> "commit", date |-> t] :
        t \in { start_ts, start_ts - 1, start_ts - SecondsPerDay } }
     \cup { [kind |-> "nodate", date |-> 0], [kind |-> "raises", date |-> 0] })
    \ { CommonEntry(end_ts) }

Entries(start_ts, end_ts) ==
    OddEntries(start_ts, end_ts) \cup { CommonEntry(end_ts) }

\* mutant: the commit is counted whatever its date
CountCommitAny(bucket, e) ==
    LET k == DateKey(e.date)
    IN IF k \in DOMAIN bucket
       THEN [bucket EXCEPT ![k] = @ + 1]
       ELSE [bucket EXCEPT ![SetMin(DOMAIN bucket)] = @ + 1]

\* lines 87-89: the day of the commit is counted if it is a seeded key
CountCommit(bucket, e) ==
    LET k == DateKey(e.date)
    IN IF k \in DOMAIN bucket THEN [bucket EXCEPT ![k] = @ + 1] ELSE bucket

\* lines 85-95: the body of the loop for one entry
LoopBody(bucket, processed, e) ==
    IF e.kind = "raises"
    THEN [bucket |-> bucket, processed |-> processed]
    ELSE IF e.kind = "commit"
    THEN [bucket |-> CountCommit(bucket, e), processed |-> processed + 1]
    ELSE [bucket |-> bucket, processed |-> processed + 1]

(* ------------------------ get_contributor_stats ----------------------- *)
\* A contributor of the listing: ok = FALSE when reading login, html_url
\* or avatar_url raises.
Contributor == [login : Nat, contributions : Nat, ok : BOOLEAN]

\* a listing with the given contribution counts; login i is the i-th of the
\* listing, and the fields of the contributors in bad cannot be read
ListingOf(counts, bad) ==
    [i \in 1..Len(counts) |->
        [login |-> i, contributions |-> counts[i], ok |-> i \notin bad]]

\* a short listing with a tie
ExampleCounts == << 5, 50, 10, 50, 1 >>

\* a listing longer than the ranking, with ties: 1, 2, 0, 1, 2, 0, ...
LongCounts == [i \in 1..(top_n + 2) |-> i % 3]

\* what list(repo.get_contributors()) may answer
ContribLists ==
    UNION { { [i \in 1..n |-> [login |-> i, contributions |-> f[i][1], ok |-> f[i][2]]] :
                f \in [1..n -> (0..MaxCount) \X BOOLEAN] } :
            n \in 0..MaxContrib }
    \cup { ListingOf(ExampleCounts, bad) : bad \in { {}, { 2 } } }
    \cup { ListingOf(LongCounts, bad) :
             bad \in { {}, { 2 }, { 9 }, 1..(top_n + 2),
                       (1..(top_n + 2)) \ { 9, top_n + 2 } } }

RECURSIVE InsertDescUnstable(_, _)
\* mutant: x goes before the elements of equal count
InsertDescUnstable(s, x) ==
    IF s = << >> THEN << x >>
    ELSE IF Head(s).contributions > x.contributions
         THEN << Head(s) >> \o InsertDescUnstable(Tail(s), x)
         ELSE << x >> \o s

RECURSIVE InsertDesc(_, _)
\* x goes after every element whose count is >= its own
InsertDesc(s, x) ==
    IF s = << >> THEN << x >>
    ELSE IF Head(s).contributions >= x.contributions
         THEN << Head(s) >> \o InsertDesc(Tail(s), x)
         ELSE << x >> \o s

RECURSIVE SortDesc(_)
\* lines 177-181: sorted(key = contributions, reverse = True), stable
SortDesc(s) ==
    IF s = << >> THEN << >>
    ELSE InsertDesc(SortDesc(SubSeq(s, 1, Len(s) - 1)), s[Len(s)])

\* line 181: [:10]
TopN(s) == SubSeq(s, 1, Min(Len(s), top_n))

\* lines 184-195: the rows of the contributors whose fields can be read
Rows(s) == SelectSeq(s, LAMBDA c : c.ok)

NoneResult == [none |-> TRUE, rows |-> << >>, sorted |-> << >>]

\* lines 173-200: from the listing to the value returned
ContributorResult(listing) ==
    IF listing = << >> THEN NoneResult
    ELSE LET contributors_sorted == TopN(SortDesc(listing))
             contributor_data == Rows(contributors_sorted)
         IN IF contributor_data = << >> THEN NoneResult
            ELSE [none |-> FALSE, rows |-> contributor_data,
                  sorted |-> contributors_sorted]

(* ------------------------------ the gates ----------------------------- *)
\* mutant: the result of the quota check is ignored
GcaGateOpen(has_capacity) == "list"

\* line 68: if not check_rate_limit(g)
GcaGate(has_capacity) == IF ~has_capacity THEN "return" ELSE "list"

\* mutant: the result of the quota check is ignored
GcsGateOpen(has_capacity) == "fetch"

\* line 168: if not check_rate_limit(g)
GcsGate(has_capacity) == IF ~has_capacity THEN "return" ELSE "fetch"

(* ------------------------------- state -------------------------------- *)
VARIABLES
    pc,                 \* where the script is
    now,                \* the instant the clock shows
    days,               \* the days argument of get_commit_activity
    rl,                 \* the last check_rate_limit: its query and result
    hgr_caller,         \* which call of handle_github_request is running
    attempt,            \* handle_github_request: the loop variable
    invocations,        \* handle_github_request: calls of func so far
    last_exc,           \* handle_github_request: what the last call raised
    hgr_out,            \* handle_github_request: how it ended
    slept,              \* the time.sleep calls of the running section
    api,                \* the API requests of the running section
    msgs,               \* the st.warning / st.error shown since the section's
                        \* quota check passed (or since it began)
    start_date,         \* get_commit_activity
    end_date,           \* get_commit_activity
    commit_activity,    \* get_commit_activity: day -> count
    processed_commits,  \* get_commit_activity
    seen,               \* the listing entries the loop body has been given
    series,             \* get_commit_activity: the rows returned
    gca_exit,           \* get_commit_activity: the path it returned by
    gcs_out             \* get_contributor_stats: the value returned

vars == << pc, now, days, rl, hgr_caller, attempt, invocations, last_exc,
           hgr_out, slept, api, msgs, start_date, end_date, commit_activity,
           processed_commits, seen, series, gca_exit, gcs_out >>

hgrVars == << hgr_caller, attempt, invocations, last_exc, hgr_out >>
gcaVars == << start_date, end_date, commit_activity, processed_commits,
              seen, series, gca_exit >>

NoRl == [called |-> FALSE, q |-> [ok |-> FALSE, remaining |-> 0, reset |-> NoTime],
         result |-> TRUE]
NoOut == [kind |-> "running", value |-> << >>]
NoBucket == [k \in {} |-> 0]
NoSeen == [e \in {} |-> 0]

\* the days argument: main() passes the default of 30; the window of a
\* single day is tried as well
DaysChoices == { 0, default_days }

Msg(m) == IF m = "none" THEN {} ELSE { m }

Init ==
    /\ pc = "m_check"
    /\ now \in NowChoices
    /\ days = 0
    /\ rl = NoRl
    /\ hgr_caller = "none"
    /\ attempt = 0
    /\ invocations = 0
    /\ last_exc = "none"
    /\ hgr_out = NoOut
    /\ slept = << >>
    /\ api = {}
    /\ msgs = {}
    /\ start_date = 0
    /\ end_date = 0
    /\ commit_activity = NoBucket
    /\ processed_commits = 0
    /\ seen = NoSeen
    /\ series = << >>
    /\ gca_exit = "none"
    /\ gcs_out = NoneResult

\* a call of check_rate_limit(g) inside an aggregator: one quota query
RateCheck(q) ==
    /\ rl' = [called |-> TRUE, q |-> q, result |-> check_rate_limit(q, now).result]
    /\ api' = { "get_rate_limit" }
    /\ msgs' = Msg(check_rate_limit(q, now).msg)

\* the start of a call of handle_github_request
HgrStart(caller) ==
    /\ hgr_caller' = caller
    /\ attempt' = 0
    /\ invocations' = 0
    /\ last_exc' = "none"
    /\ hgr_out' = NoOut
    /\ slept' = << >>

HgrIdle ==
    /\ hgr_caller' = "none"
    /\ attempt' = 0
    /\ invocations' = 0
    /\ last_exc' = "none"
    /\ hgr_out' = NoOut

GcaIdle ==
    /\ start_date' = 0
    /\ end_date' = 0
    /\ commit_activity' = NoBucket
    /\ processed_commits' = 0
    /\ seen' = NoSeen
    /\ series' = << >>
    /\ gca_exit' = "none"

(* -------------------------------- main -------------------------------- *)
\* lines 234-238: the first quota check only warns
M_Check ==
    /\ pc = "m_check"
    /\ \E q \in RateQueries(now) :
          /\ rl' = [called |-> TRUE, q |-> q,
                    result |-> check_rate_limit(q, now).result]
          /\ msgs' = Msg(check_rate_limit(q, now).msg)
                     \cup (IF check_rate_limit(q, now).result THEN {}
                           ELSE { "warn_rate_low" })
    /\ api' = { "get_rate_limit" }
    /\ pc' = "m_parse"
    /\ UNCHANGED << now, days, hgrVars, slept, gcaVars, gcs_out >>

\* lines 241-247: get_repo_info; an unparsable URL ends main
M_Parse ==
    /\ pc = "m_parse"
    /\ \E valid \in BOOLEAN :
          IF valid
          THEN /\ pc' = "hgr_try"
               /\ HgrStart("get_repo")
               /\ api' = {}
               /\ msgs' = {}
          ELSE /\ pc' = "m_returned"
               /\ msgs' = { "err_bad_url" }
               /\ UNCHANGED << hgrVars, slept, api >>
    /\ rl' = NoRl
    /\ UNCHANGED << now, days, gcaVars, gcs_out >>

(* ------------------------ handle_github_request ----------------------- *)
\* what one attempt leaves behind, given the handler's answer
HgrHandled(exc, h) ==
    /\ invocations' = invocations + 1
    /\ last_exc' = exc
    /\ slept' = slept \o h.sleeps
    /\ msgs' = msgs \cup Msg(h.msg)
    /\ IF h.verdict = "retry"
       THEN IF attempt + 1 < max_retries
            THEN /\ attempt' = attempt + 1
                 /\ pc' = "hgr_try"
                 /\ hgr_out' = NoOut
            ELSE \* line 163: the loop is over
                 /\ attempt' = attempt
                 /\ pc' = "hgr_done"
                 /\ hgr_out' = [kind |-> "none", value |-> << >>]
       ELSE /\ attempt' = attempt
            /\ pc' = "hgr_done"
            /\ hgr_out' = [kind |-> h.verdict, value |-> << >>]
    /\ api' = api \cup { hgr_caller }
    /\ UNCHANGED << now, days, rl, hgr_caller, gcaVars, gcs_out >>

\* line 142: func returns
HGR_Return ==
    /\ pc = "hgr_try"
    /\ \E v \in (IF hgr_caller = "get_repo" THEN { << >> } ELSE ContribLists) :
          hgr_out' = [kind |-> "value", value |-> v]
    /\ invocations' = invocations + 1
    /\ last_exc' = "none"
    /\ pc' = "hgr_done"
    /\ api' = api \cup { hgr_caller }
    /\ UNCHANGED << now, days, rl, hgr_caller, attempt, slept, msgs, gcaVars,
                    gcs_out >>

\* lines 143-152
HGR_RateLimitExceeded ==
    /\ pc = "hgr_try"
    /\ \E hdr \in ResetHeaders(now) :
          HgrHandled("RateLimitExceeded", OnRateLimitExceeded(attempt, hdr, now))

\* lines 153-155
HGR_BadCredentials ==
    /\ pc = "hgr_try"
    /\ HgrHandled("BadCredentials", OnBadCredentials(attempt))

\* lines 156-158
HGR_BadAttribute ==
    /\ pc = "hgr_try"
    /\ HgrHandled("BadAttribute", OnBadAttribute(attempt))

\* lines 159-162
HGR_Other ==
    /\ pc = "hgr_try"
    /\ HgrHandled("Other", OnOther(attempt))

\* st.stop() inside handle_github_request: the StopException passes every
\* "except Exception" of the callers and ends the script run
ScriptStopped ==
    /\ pc = "hgr_done"
    /\ hgr_out.kind = "stop"
    /\ pc' = "stopped"
    /\ UNCHANGED << now, days, rl, hgrVars, slept, api, msgs, gcaVars, gcs_out >>

\* lines 247-286: the repository was fetched and is shown; reading one of
\* its lazy fields may raise, which the handlers of lines 436-444 report
M_RepoFetched ==
    /\ pc = "hgr_done"
    /\ hgr_caller = "get_repo"
    /\ hgr_out.kind \in { "value", "none" }
    /\ IF hgr_out.kind = "none"
       THEN /\ pc' = "m_returned"
            /\ msgs' = msgs
       ELSE \E shown \in BOOLEAN :
               IF shown
               THEN pc' = "m_gate" /\ msgs' = {}
               ELSE pc' = "m_errored" /\ msgs' = { "err_unexpected" }
    /\ HgrIdle
    /\ slept' = << >>
    /\ api' = {}
    /\ UNCHANGED << now, days, rl, gcaVars, gcs_out >>

\* lines 436-444: the repository fetch raised
M_RepoFailed ==
    /\ pc = "hgr_done"
    /\ hgr_caller = "get_repo"
    /\ hgr_out.kind = "raise"
    /\ pc' = "m_errored"
    /\ msgs' = msgs \cup { "err_fetch" }
    /\ UNCHANGED << now, days, rl, hgrVars, slept, api, gcaVars, gcs_out >>

\* lines 292-297: the quota gate before the commit activity
M_Gate ==
    /\ pc = "m_gate"
    /\ \E q \in RateQueries(now) :
          /\ rl' = [called |-> TRUE, q |-> q,
                    result |-> check_rate_limit(q, now).result]
          /\ api' = { "get_rate_limit" }
          /\ IF check_rate_limit(q, now).result
             THEN /\ pc' = "gca_seed"
                  /\ msgs' = Msg(check_rate_limit(q, now).msg)
             ELSE /\ pc' = "gcs_check"
                  /\ msgs' = Msg(check_rate_limit(q, now).msg)
                             \cup { "warn_rate_too_low" }
    /\ UNCHANGED << now, days, hgrVars, slept, gcaVars, gcs_out >>

(* ------------------------- get_commit_activity ------------------------ *)
\* lines 59-65: the window and the seeded bucket
GCA_Seed ==
    /\ pc = "gca_seed"
    /\ \E d \in DaysChoices :
          /\ days' = d
          /\ start_date' = now - d * SecondsPerDay
          /\ commit_activity' = Seed(now - d * SecondsPerDay, d)
    /\ end_date' = now
    /\ processed_commits' = 0
    /\ seen' = NoSeen
    /\ series' = << >>
    /\ gca_exit' = "none"
    /\ rl' = NoRl
    /\ api' = {}
    /\ msgs' = {}
    /\ slept' = << >>
    /\ pc' = "gca_check"
    /\ UNCHANGED << now, hgrVars, gcs_out >>

\* line 68: check_rate_limit(g)
GCA_Check ==
    /\ pc = "gca_check"
    /\ \E q \in RateQueries(now) : RateCheck(q)
    /\ pc' = "gca_checked"
    /\ UNCHANGED << now, days, hgrVars, slept, gcaVars, gcs_out >>

\* lines 68-70: no capacity, the seeded days are returned at 0
GCA_NoCapacity ==
    /\ pc = "gca_checked"
    /\ GcaGate(rl.result) = "return"
    /\ msgs' = msgs \cup { "warn_rate_too_low_for_commits" }
    /\ series' = ZeroSeries(commit_activity)
    /\ gca_exit' = "no_capacity"
    /\ pc' = "gca_ret"
    /\ UNCHANGED << now, days, rl, hgrVars, slept, api, start_date, end_date,
                    commit_activity, processed_commits, seen, gcs_out >>

\* lines 72-78: the listing is requested and the scan starts
GCA_List ==
    /\ pc = "gca_checked"
    /\ GcaGate(rl.result) = "list"
    /\ api' = api \cup { "get_commits" }
    /\ processed_commits' = 0
    /\ seen' = [e \in Entries(start_date, end_date) |-> 0]
    /\ rl' = NoRl
    /\ msgs' = {}
    /\ pc' = "gca_loop"
    /\ UNCHANGED << now, days, hgrVars, slept, start_date, end_date,
                    commit_activity, series, gca_exit, gcs_out >>

RECURSIVE SumOver(_, _)
\* the sum of f over the set S of its arguments
SumOver(f, S) ==
    IF S = {} THEN 0
    ELSE LET e == CHOOSE x \in S : TRUE IN f[e] + SumOver(f, S \ {e})

\* the entries given to the loop body that differ from the common one
OddCount(sn) == SumOver(sn, { e \in DOMAIN sn : e # CommonEntry(end_date) })

\* lines 80-95: the listing yields an entry below the cap
GCA_Body ==
    /\ pc = "gca_loop"
    /\ processed_commits < commit_limit
    /\ \E e \in (IF OddCount(seen) < MaxOdd
                 THEN Entries(start_date, end_date)
                 ELSE { CommonEntry(end_date) }) :
          LET after == LoopBody(commit_activity, processed_commits, e)
          IN /\ commit_activity' = after.bucket
             /\ processed_commits' = after.processed
             /\ seen' = [seen EXCEPT ![e] = @ + 1]
    /\ UNCHANGED << pc, now, days, rl, hgrVars, slept, api, msgs, start_date,
                    end_date, series, gca_exit, gcs_out >>

\* lines 97-99, 107: the end of the scan and the rows returned
GcaFinish(how) ==
    /\ slept' = slept \o << finalize_sleep >>
    /\ series' = CountSeries(commit_activity)
    /\ gca_exit' = how
    /\ pc' = "gca_ret"
    /\ UNCHANGED << now, days, rl, hgrVars, api, start_date, end_date,
                    commit_activity, processed_commits, seen, gcs_out >>

\* lines 81-83: the listing yields an entry at the cap
GCA_Capped ==
    /\ pc = "gca_loop"
    /\ processed_commits >= commit_limit
    /\ msgs' = msgs \cup { "warn_capped" }
    /\ GcaFinish("capped")

\* line 80: the listing is exhausted
GCA_Exhausted ==
    /\ pc = "gca_loop"
    /\ msgs' = msgs
    /\ GcaFinish("complete")

\* lines 101-103: fetching the next page raises RateLimitExceededException
GCA_RateLimited ==
    /\ pc = "gca_loop"
    /\ msgs' = msgs \cup { "err_commits_rate_limit" }
    /\ series' = RateLimitSeries(commit_activity)
    /\ gca_exit' = "rate_limited"
    /\ pc' = "gca_ret"
    /\ UNCHANGED << now, days, rl, hgrVars, slept, api, start_date, end_date,
                    commit_activity, processed_commits, seen, gcs_out >>

\* lines 104-107: fetching the next page raises another Exception
GCA_Failed ==
    /\ pc = "gca_loop"
    /\ msgs' = msgs \cup { "warn_partial_history" }
    /\ series' = CountSeries(commit_activity)
    /\ gca_exit' = "failed"
    /\ pc' = "gca_ret"
    /\ UNCHANGED << now, days, rl, hgrVars, slept, api, start_date, end_date,
                    commit_activity, processed_commits, seen, gcs_out >>

\* lines 297-371: the chart, the statistics and the recent commits are
\* shown; every failure there is reported as a warning
M_ShowActivity ==
    /\ pc = "gca_ret"
    /\ GcaIdle
    /\ rl' = NoRl
    /\ slept' = << >>
    /\ api' = {}
    /\ msgs' = {}
    /\ days' = 0
    /\ pc' = "gcs_check"
    /\ UNCHANGED << now, hgrVars, gcs_out >>

(* ------------------------ get_contributor_stats ----------------------- *)
\* line 168: check_rate_limit(g)
GCS_Check ==
    /\ pc = "gcs_check"
    /\ \E q \in RateQueries(now) : RateCheck(q)
    /\ pc' = "gcs_checked"
    /\ UNCHANGED << now, days, hgrVars, slept, gcaVars, gcs_out >>

\* lines 168-169: no capacity
GCS_NoCapacity ==
    /\ pc = "gcs_checked"
    /\ GcsGate(rl.result) = "return"
    /\ gcs_out' = NoneResult
    /\ pc' = "gcs_ret"
    /\ UNCHANGED << now, days, rl, hgrVars, slept, api, msgs, gcaVars >>

\* line 172: the listing is fetched through handle_github_request
GCS_Fetch ==
    /\ pc = "gcs_checked"
    /\ GcsGate(rl.result) = "fetch"
    /\ HgrStart("get_contributors")
    /\ rl' = NoRl
    /\ msgs' = {}
    /\ pc' = "hgr_try"
    /\ UNCHANGED << now, days, api, gcaVars, gcs_out >>

\* lines 173-200: the listing is ranked
GCS_Listed ==
    /\ pc = "hgr_done"
    /\ hgr_caller = "get_contributors"
    /\ hgr_out.kind \in { "value", "none" }
    /\ gcs_out' = ContributorResult(hgr_out.value)
    /\ msgs' = msgs \cup
               (IF \E i \in 1..Len(TopN(SortDesc(hgr_out.value))) :
                       ~TopN(SortDesc(hgr_out.value))[i].ok
                THEN { "warn_contributor_skipped" } ELSE {})
    /\ pc' = "gcs_ret"
    /\ UNCHANGED << now, days, rl, hgrVars, slept, api, gcaVars >>

\* lines 202-204: the fetch raised
GCS_Failed ==
    /\ pc = "hgr_done"
    /\ hgr_caller = "get_contributors"
    /\ hgr_out.kind = "raise"
    /\ gcs_out' = NoneResult
    /\ msgs' = msgs \cup { "warn_contributors_failed" }
    /\ pc' = "gcs_ret"
    /\ UNCHANGED << now, days, rl, hgrVars, slept, api, gcaVars >>

\* lines 378-431: the ranking is shown, if any
M_ShowContributors ==
    /\ pc = "gcs_ret"
    /\ HgrIdle
    /\ gcs_out' = NoneResult
    /\ rl' = NoRl
    /\ slept' = << >>
    /\ api' = {}
    /\ msgs' = {}
    /\ pc' = "m_done"
    /\ UNCHANGED << now, days, gcaVars >>

Next ==
    \/ M_Check
    \/ M_Parse
    \/ HGR_Return
    \/ HGR_RateLimitExceeded
    \/ HGR_BadCredentials
    \/ HGR_BadAttribute
    \/ HGR_Other
    \/ ScriptStopped
    \/ M_RepoFetched
    \/ M_RepoFailed
    \/ M_Gate
    \/ GCA_Seed
    \/ GCA_Check
    \/ GCA_NoCapacity
    \/ GCA_List
    \/ GCA_Body
    \/ GCA_Capped
    \/ GCA_Exhausted
    \/ GCA_RateLimited
    \/ GCA_Failed
    \/ M_ShowActivity
    \/ GCS_Check
    \/ GCS_NoCapacity
    \/ GCS_Fetch
    \/ GCS_Listed
    \/ GCS_Failed
    \/ M_ShowContributors

Spec == Init /\ [][Next]_vars

(* ------------------------------- claims ------------------------------- *)
\* a step of handle_github_request in which func raised exc
HgrRaised(exc) == pc = "hgr_try" /\ last_exc' = exc

\* C1: in handle_github_request a quota-exceeded error on attempt 1 or 2 is
\* followed by a sleep and another invocation of the operation; on attempt 3
\* it halts the script (st.stop) instead of returning or raising; the
\* operation is invoked at most 3 times in one call.
C1_QuotaRetriesThenHalts ==
    /\ [](invocations <= 3)
    /\ [](pc = "hgr_try" => attempt < 3 /\ invocations = attempt)
    /\ [][HgrRaised("RateLimitExceeded") =>
             /\ invocations' = invocations + 1
             /\ IF invocations' < 3
                THEN /\ pc' = "hgr_try"
                     /\ Len(slept') > Len(slept)
                     /\ SubSeq(slept', 1, Len(slept)) = slept
                     /\ hgr_out'.kind = "running"
                ELSE /\ pc' = "hgr_done"
                     /\ hgr_out'.kind = "stop"
                     /\ slept' = slept]_vars
    /\ [][(pc = "hgr_done" /\ hgr_out.kind = "stop"
              /\ last_exc = "RateLimitExceeded") => pc' = "stopped"]_vars

\* C1 witness: the third quota-exceeded error in a row stopped the script
C1_Witness ==
    /\ pc = "stopped"
    /\ last_exc = "RateLimitExceeded"
    /\ invocations = 3
    /\ Len(slept) = 4

\* C2: an invalid-credentials or malformed-data error on any attempt halts
\* the script at once: no sleep, no further invocation.
C2_FatalImmediately ==
    /\ [][(HgrRaised("BadCredentials") \/ HgrRaised("BadAttribute")) =>
             /\ invocations' = invocations + 1
             /\ pc' = "hgr_done"
             /\ hgr_out'.kind = "stop"
             /\ slept' = slept]_vars
    /\ [][(pc = "hgr_done" /\ hgr_out.kind = "stop"
              /\ last_exc \in { "BadCredentials", "BadAttribute" }) =>
             /\ pc' = "stopped"
             /\ invocations' = invocations
             /\ slept' = slept]_vars
    /\ [][pc = "stopped" => FALSE]_vars

\* C2 witness: invalid credentials on the first attempt stopped the script
C2_Witness ==
    /\ pc = "stopped"
    /\ last_exc = "BadCredentials"
    /\ invocations = 1
    /\ slept = << >>

\* C3: any other error on attempt n < 3 is followed by a sleep of exactly
\* 2 * n seconds and a retry; on attempt 3 it is raised to the caller.
C3_TransientBackoffThenRaise ==
    [][HgrRaised("Other") =>
          /\ invocations' = invocations + 1
          /\ IF invocations' < 3
             THEN /\ slept' = Append(slept, 2 * invocations')
                  /\ pc' = "hgr_try"
                  /\ attempt' = attempt + 1
                  /\ hgr_out'.kind = "running"
             ELSE /\ slept' = slept
                  /\ pc' = "hgr_done"
                  /\ hgr_out'.kind = "raise"]_vars

\* C3 witness: three transient errors, slept 2 s and 4 s, then raised
C3_Witness ==
    /\ pc = "hgr_done"
    /\ hgr_out.kind = "raise"
    /\ last_exc = "Other"
    /\ slept = << 2, 4 >>

(* get_commit_activity, seen from outside *)
\* the listing entries the loop body was given
Examined == SumOver(seen, DOMAIN seen)

\* the commits counted in the bucket
BucketTotal == SumOver(commit_activity, DOMAIN commit_activity)

\* the entries given to the loop body that carry an author date on the
\* calendar day printed as key
SeenOnDay(key) ==
    SumOver(seen, { e \in DOMAIN seen : e.kind = "commit" /\ DateKey(e.date) = key })

\* the same, restricted to author dates inside [start_date, end_date]
SeenInWindowOnDay(key) ==
    SumOver(seen, { e \in DOMAIN seen :
                      /\ e.kind = "commit"
                      /\ start_date <= e.date /\ e.date <= end_date
                      /\ DateKey(e.date) = key })

InCommitActivity == pc \in { "gca_seed", "gca_check", "gca_checked", "gca_loop" }

\* C4 as claimed: after a quota-exceeded error in the iteration the rows
\* returned carry the counts accumulated before the error.
C4_PartialOnRateLimit ==
    (pc = "gca_ret" /\ gca_exit = "rate_limited") =>
        \A i \in 1..Len(series) :
            series[i].commits = commit_activity[series[i].date]

\* C4 amended: after a quota-exceeded error in the iteration the scan is
\* over, one row per seeded day is returned with every count 0 (the counts
\* accumulated before the error are dropped), an error is shown, nothing is
\* slept, and the script goes on to the contributor section.
C4_ZeroOnRateLimit ==
    /\ []((pc = "gca_ret" /\ gca_exit = "rate_limited") =>
             /\ Len(series) = days + 1
             /\ \A i \in 1..Len(series) :
                   /\ series[i].commits = 0
                   /\ series[i].date \in DOMAIN commit_activity
             /\ "err_commits_rate_limit" \in msgs
             /\ slept = << >>)
    /\ [][(pc = "gca_ret" /\ gca_exit = "rate_limited") => pc' = "gcs_check"]_vars

\* C4 witness: the quota-exceeded error came after commits had been counted
C4_Witness ==
    /\ pc = "gca_ret"
    /\ gca_exit = "rate_limited"
    /\ processed_commits >= 2
    /\ BucketTotal >= 2

C6_CapBoundsScan ==
    /\ processed_commits <= 5000
    /\ BucketTotal <= 5000
    /\ Examined <= 5000

\* C7: when the quota check at the start of an aggregator reports no
\* capacity, the listing is not requested, nothing is slept and the degraded
\* result is returned: all-zero rows for get_commit_activity, null for
\* get_contributor_stats.
C7_NoCapacitySkipsFetch ==
    /\ [][(pc = "gca_checked" /\ ~rl.result) =>
             /\ pc' = "gca_ret"
             /\ Len(series') = days + 1
             /\ \A i \in 1..Len(series') : series'[i].commits = 0
             /\ "get_commits" \notin api'
             /\ slept' = << >>]_vars
    /\ [][(pc = "gcs_checked" /\ ~rl.result) =>
             /\ pc' = "gcs_ret"
             /\ gcs_out'.none
             /\ "get_contributors" \notin api'
             /\ invocations' = 0
             /\ slept' = << >>]_vars
    /\ []((pc \in { "gca_ret", "gcs_ret" } /\ rl.called /\ ~rl.result) =>
             /\ api = { "get_rate_limit" }
             /\ msgs # {})

\* C7 witness: get_commit_activity returned without capacity
C7_Witness ==
    /\ pc = "gca_ret"
    /\ gca_exit = "no_capacity"
    /\ rl.called
    /\ ~rl.result

\* C8: check_rate_limit answers false exactly when the quota query
\* succeeded, remaining is 0 and the reset time is strictly in the future;
\* it never sleeps.
C8_RateLimitGate ==
    /\ [](rl.called =>
            (~rl.result <=>
                /\ rl.q.ok
                /\ rl.q.remaining = 0
                /\ rl.q.reset.present
                /\ rl.q.reset.t > now))
    /\ [][(rl'.called /\ pc \in { "m_check", "m_gate", "gca_check", "gcs_check" }) =>
             slept' = slept]_vars

\* C8 witness: no capacity reported for a reset time without tzinfo
C8_Witness ==
    /\ rl.called
    /\ ~rl.result
    /\ rl.q.reset.naive
    /\ rl.q.reset.t = now + 1

\* C9: on every return path get_commit_activity returns days + 1 rows, one
\* per calendar day from start to end, dates ascending and distinct, counts
\* >= 0; counting never adds or removes a key.
C9_OneRowPerDay ==
    /\ [](pc = "gca_ret" =>
             /\ gca_exit \in { "no_capacity", "complete", "capped",
                               "rate_limited", "failed" }
             /\ Len(series) = days + 1
             /\ \A i \in 1..Len(series) :
                   /\ series[i].date = DateKey(start_date + (i - 1) * SecondsPerDay)
                   /\ series[i].commits >= 0
             /\ \A i \in 1..(Len(series) - 1) : series[i].date < series[i + 1].date
             /\ series[Len(series)].date = DateKey(end_date))
    /\ [][pc = "gca_loop" => DOMAIN commit_activity' = DOMAIN commit_activity]_vars
    /\ []((InCommitActivity /\ pc # "gca_seed") =>
             Cardinality(DOMAIN commit_activity) = days + 1)

\* C9 witness: the scan was cut at the cap over a 30-day window
C9_Witness ==
    /\ pc = "gca_ret"
    /\ gca_exit = "capped"
    /\ days = 30
    /\ Len(series) = 31

\* C10 as claimed: after a complete scan each day's count is the number of
\* listed commits dated inside [start, end] on that day.
C10_CountsInstantWindow ==
    (pc = "gca_ret" /\ gca_exit = "complete") =>
        \A i \in 1..Len(series) :
            series[i].commits = SeenInWindowOnDay(series[i].date)

\* C10 amended: after a complete scan each day's count is the number of
\* listed commits whose author date falls on that calendar day (UTC), for
\* the days + 1 calendar days from the day of start to the day of end; a
\* commit dated on any other day, or without author date, or whose fields
\* raise, is counted nowhere and fails nothing.
C10_CountsCalendarDays ==
    (pc = "gca_ret" /\ gca_exit = "complete") =>
        /\ \A i \in 1..Len(series) :
              series[i].commits = SeenOnDay(series[i].date)
        /\ BucketTotal =
              SumOver(seen, { e \in DOMAIN seen :
                                /\ e.kind = "commit"
                                /\ DateKey(start_date) <= DateKey(e.date)
                                /\ DateKey(e.date) <= DateKey(end_date) })
        /\ msgs = {}

\* C10 witness: three commits on the last day, one on the first, 30 days
C10_Witness ==
    /\ pc = "gca_ret"
    /\ gca_exit = "complete"
    /\ days = 30
    /\ series[31].commits = 3
    /\ series[1].commits = 1
    /\ seen[[kind |-> "commit", date |-> start_date]] = 1

(* ------------------------------- C11 ---------------------------------- *)
\* the listing that get_contributor_stats has ranked
Listing == hgr_out.value

Ranked ==
    /\ pc = "gcs_ret"
    /\ hgr_caller = "get_contributors"
    /\ hgr_out.kind = "value"

Elems(s) == { s[i] : i \in DOMAIN s }

\* y comes before x: more contributions, or as many and listed earlier
Outranks(y, x) ==
    \/ y.contributions > x.contributions
    \/ y.contributions = x.contributions /\ y.login < x.login

\* how many contributors of the listing come before x
Rank(x) == Cardinality({ y \in Elems(Listing) : Outranks(y, x) })

\* s is the listing by contributions descending, ties in listing order,
\* cut after the first 10
IsTopTen(s) ==
    /\ Len(s) = (IF Len(Listing) < 10 THEN Len(Listing) ELSE 10)
    /\ \A i \in 1..Len(s) : s[i] \in Elems(Listing) /\ Rank(s[i]) = i - 1

\* C11 as stated: every non-empty listing yields its contributors by
\* contributions descending, ties in listing order, cut after the first
\* 10; the empty listing yields null.
C11_RankedForAnyListing ==
    Ranked =>
        IF Listing = << >>
        THEN gcs_out.none
        ELSE ~gcs_out.none /\ IsTopTen(gcs_out.sorted)

\* C11 amended: the result is null exactly when no contributor among the
\* first 10 of the ranking has readable fields (the empty listing
\* included); otherwise the ranked list is the listing by contributions
\* descending, ties in listing order, cut after the first 10, and the
\* table holds, in that order, those of the 10 whose fields can be read.
C11_RankedWhenReadable ==
    Ranked =>
        /\ gcs_out.none <=> (\A x \in Elems(Listing) : x.ok => Rank(x) >= 10)
        /\ ~gcs_out.none =>
              /\ IsTopTen(gcs_out.sorted)
              /\ Elems(gcs_out.rows) =
                    { x \in Elems(Listing) : x.ok /\ Rank(x) < 10 }
              /\ \A i, j \in 1..Len(gcs_out.rows) :
                    i < j => Outranks(gcs_out.rows[i], gcs_out.rows[j])

\* C11 witness: counts 5, 50, 10, 50, 1 are ranked 50, 50, 10, 5, 1 with
\* the second contributor before the fourth
C11_Witness ==
    /\ Ranked
    /\ [i \in 1..Len(Listing) |-> Listing[i].contributions] = << 5, 50, 10, 50, 1 >>
    /\ ~gcs_out.none
    /\ [i \in 1..Len(gcs_out.sorted) |-> gcs_out.sorted[i].login] = << 2, 4, 3, 1, 5 >>
    /\ [i \in 1..Len(gcs_out.rows) |-> gcs_out.rows[i].contributions]
          = << 50, 50, 10, 5, 1 >>

(* ------------------------------- C12 ---------------------------------- *)
RECURSIVE SumSeq(_)
SumSeq(s) == IF s = << >> THEN 0 ELSE Head(s) + SumSeq(Tail(s))

\* a quota-exceeded error on a non-final attempt: the operation is retried
QuotaRetry ==
    /\ HgrRaised("RateLimitExceeded")
    /\ pc' = "hgr_try"

\* the sleeps between the failed invocation and the next one
SleepsBeforeRetry == SubSeq(slept', Len(slept) + 1, Len(slept'))

\* C12 as stated: after a quota-exceeded error on a non-final attempt the
\* wait before the retry is at most 60 seconds, and so is every sleep.
C12_WaitAtMost60 ==
    [][QuotaRetry =>
          /\ SumSeq(SleepsBeforeRetry) <= 60
          /\ \A i \in 1..Len(SleepsBeforeRetry) : SleepsBeforeRetry[i] <= 60]_vars

\* C12 amended: the sleep until the advertised reset (1 to 60 seconds,
\* absent when no reset is advertised or it is already past) is followed
\* by a backoff sleep of 2 seconds times the number of attempts made, so
\* every sleep is at most 60 seconds and the wait before the retry is at
\* most 60 seconds plus the backoff, 64 seconds at the most.
C12_SleepAtMost60 ==
    [][QuotaRetry =>
          /\ Len(SleepsBeforeRetry) \in { 1, 2 }
          /\ \A i \in 1..Len(SleepsBeforeRetry) : SleepsBeforeRetry[i] \in 1..60
          /\ SleepsBeforeRetry[Len(SleepsBeforeRetry)] = 2 * (attempt + 1)
          /\ SumSeq(SleepsBeforeRetry) <= 60 + 2 * (attempt + 1)
          /\ SumSeq(SleepsBeforeRetry) <= 64]_vars

\* C12 witness: the second quota-exceeded error waited 60 seconds for the
\* reset and 4 more before the third invocation
C12_Witness ==
    /\ pc = "hgr_try"
    /\ last_exc = "RateLimitExceeded"
    /\ attempt = 2
    /\ Len(slept) >= 2
    /\ SubSeq(slept, Len(slept) - 1, Len(slept)) = << 60, 4 >>
====
